---- MODULE Spec2Model ----
(***************************************************************************)
(* A model of qr_gui.py: the QRCodeGenerator class (validate_url,          *)
(* format_url, generate_qr_code, display_qr_info) and the interaction loop *)
(* of main.                                                                *)
(*                                                                         *)
(* A Python str is modelled as a sequence of one-character strings, so     *)
(* that startswith, endswith, lower, strip, slicing and the character      *)
(* filter are computed character by character.  Python's None is the       *)
(* value None below, which is not a str.                                   *)
(***************************************************************************)
EXTENDS Integers, Sequences, FiniteSets

VARIABLES
    pc,         \* position of the running client: see Init* below
    url,        \* the url argument of the last call (as the caller passed it)
    filename,   \* the filename argument of the last call (None when absent)
    result,     \* what the last call returned
    fs,         \* the files on disk: a function from location to content
    dirs,       \* the directories on disk besides the root and the cwd chain
    log,        \* history: the generate_qr_code calls made so far
    out,        \* main: what the current loop iteration did, in order
    exitStatus  \* main: the exit status of the process once terminated

vars == <<pc, url, filename, result, fs, dirs, log, out, exitStatus>>

----------------------------------------------------------------------------
(* Bounds of the model. *)

\* longest free-form body of a url drawn for the pure functions
MaxBody == 3
\* how far past the 20-character cut the long urls reach
MaxOver == 1
\* longest caller-supplied filename drawn for the extension rule
MaxExt == 4
\* number of generate_qr_code calls in one behaviour of SpecGen
MaxCalls == 2

----------------------------------------------------------------------------
(* Values and strings. *)

None == <<"None">>
IsStr(x) == x # None

NoResult == [fn |-> "none"]
NoStatus == <<>>

HTTP == <<"h", "t", "t", "p", ":", "/", "/">>
HTTPS == <<"h", "t", "t", "p", "s", ":", "/", "/">>
PNG == <<".", "p", "n", "g">>

Letters == {"a", "b", "g", "h", "n", "p", "q", "s", "t", "z",
            "G", "H", "P", "T"}
Digits == {"7", "9"}

\* str.isalnum() on one character
isalnum(c) == c \in Letters \cup Digits

\* str.lower() on one character, then on a string
LowerChar(c) ==
    CASE c = "G" -> "g"
      [] c = "H" -> "h"
      [] c = "P" -> "p"
      [] c = "T" -> "t"
      [] OTHER -> c

lower(s) == [i \in 1..Len(s) |-> LowerChar(s[i])]

\* str.startswith(p) and str.endswith(p)
startswith(s, p) == Len(s) >= Len(p) /\ SubSeq(s, 1, Len(p)) = p
endswith(s, p) == Len(s) >= Len(p) /\ SubSeq(s, Len(s) - Len(p) + 1, Len(s)) = p

\* c in s
Contains(s, c) == \E i \in 1..Len(s) : s[i] = c

\* s[:n]
Prefix(s, n) == SubSeq(s, 1, IF Len(s) < n THEN Len(s) ELSE n)

\* str.strip() for the whitespace character " "
RECURSIVE lstrip(_)
lstrip(s) == IF s # <<>> /\ Head(s) = " " THEN lstrip(Tail(s)) ELSE s

RECURSIVE rstrip(_)
rstrip(s) ==
    IF s # <<>> /\ s[Len(s)] = " " THEN rstrip(SubSeq(s, 1, Len(s) - 1)) ELSE s

strip(s) == rstrip(lstrip(s))

\* all strings over chars of length at most n
Strs(chars, n) == UNION {[1..k -> chars] : k \in 0..n}

----------------------------------------------------------------------------
(* QRCodeGenerator: configuration, validate_url, format_url. *)

version == 1
box_size == 10
border == 4
error_correction == "ERROR_CORRECT_M"

validate_url_no_edge_check(u) ==
    IF u = None \/ u = <<>> THEN FALSE
    ELSE IF startswith(u, HTTP) \/ startswith(u, HTTPS) THEN TRUE
    ELSE Contains(u, ".")

validate_url(u) ==
    IF u = None \/ u = <<>> THEN FALSE
    ELSE IF startswith(u, HTTP) \/ startswith(u, HTTPS) THEN TRUE
    ELSE IF Contains(u, ".") /\ ~startswith(u, <<".">>) /\ ~endswith(u, <<".">>)
         THEN TRUE
    ELSE FALSE

format_url_https_only(u) ==
    IF ~startswith(u, HTTPS) THEN HTTPS \o u ELSE u

format_url(u) ==
    IF ~(startswith(u, HTTP) \/ startswith(u, HTTPS)) THEN HTTPS \o u ELSE u

----------------------------------------------------------------------------
(* generate_qr_code: the output filename. *)

SafeLen == 20

\* the condition of the filter of line 84
IsSafeChar(c) == isalnum(c) \/ c \in {"-", "_"}

\* "".join(c for c in s if c.isalnum() or c in ('-', '_'))
RECURSIVE FilterSafe(_)
FilterSafe(s) ==
    IF s = <<>> THEN <<>>
    ELSE (IF IsSafeChar(Head(s)) THEN <<Head(s)>> ELSE <<>>) \o FilterSafe(Tail(s))

safe_url_of_formatted(u) == Prefix(FilterSafe(format_url(u)), SafeLen)

safe_url(u) == Prefix(FilterSafe(u), SafeLen)

EnsureExtension_case_sensitive(f) ==
    IF ~endswith(f, PNG) THEN f \o PNG ELSE f

\* lines 88-89: append '.png' unless the name ends in it, in any letter case
EnsureExtension(f) ==
    IF ~endswith(lower(f), PNG) THEN f \o PNG ELSE f

\* "not filename": an absent (None) or empty filename
FilenameAbsent(f) == f = None \/ f = <<>>

\* lines 83-89: the name of the file generate_qr_code(u, f) writes
OutputFilename(u, f) ==
    EnsureExtension(IF FilenameAbsent(f) THEN safe_url(u) \o PNG ELSE f)

----------------------------------------------------------------------------
(* Paths and the file system.  A location is where a path leads from the   *)
(* current working directory: absolute or not, the number of steps above   *)
(* the working directory, and the names below.  The root, the working      *)
(* directory and its ancestors exist; dirs holds the other directories.    *)

output_dir == <<"q", "r", "_", "c", "o", "d", "e", "s", "_",
                "o", "u", "t", "p", "u", "t">>

\* os.path.join(a, b) on a POSIX system
join(a, b) ==
    IF startswith(b, <<"/">>) THEN b
    ELSE IF a = <<>> \/ endswith(a, <<"/">>) THEN a \o b
    ELSE a \o <<"/">> \o b

Cwd == [abs |-> FALSE, up |-> 0, comps |-> <<>>]
Root == [abs |-> TRUE, up |-> 0, comps |-> <<>>]
Child(loc, name) == [loc EXCEPT !.comps = Append(@, name)]
Parent(loc) ==
    IF loc.comps # <<>> THEN [loc EXCEPT !.comps = SubSeq(@, 1, Len(@) - 1)]
    ELSE IF loc.abs THEN loc
    ELSE [loc EXCEPT !.up = @ + 1]

OutputDirLoc == Child(Cwd, output_dir)

\* os.path.exists / isdir of a location that is a directory
IsDir(loc, ds) == loc.comps = <<>> \/ loc \in ds

\* the components of a path, split at "/"
FirstSlash(p) ==
    IF Contains(p, "/")
    THEN CHOOSE i \in 1..Len(p) : p[i] = "/" /\ \A j \in 1..(i - 1) : p[j] # "/"
    ELSE Len(p) + 1

RECURSIVE Components(_)
Components(p) ==
    IF p = <<>> THEN <<>>
    ELSE LET n == FirstSlash(p)
             head == SubSeq(p, 1, n - 1)
         IN (IF head = <<>> THEN <<>> ELSE <<head>>)
            \o Components(SubSeq(p, n + 1, Len(p)))

\* the kernel's walk from loc along the directory components cs: every
\* component met on the way must be an existing directory
RECURSIVE Walk(_, _, _)
Walk(loc, cs, ds) ==
    IF cs = <<>> THEN [ok |-> TRUE, loc |-> loc]
    ELSE LET c == Head(cs)
             next == IF c = <<".">> THEN loc
                     ELSE IF c = <<".", ".">> THEN Parent(loc)
                     ELSE Child(loc, c)
         IN IF IsDir(next, ds) THEN Walk(next, Tail(cs), ds)
            ELSE [ok |-> FALSE, loc |-> next]

\* where open(path, "wb") creates or truncates a file, when it can
Resolve(path, ds) ==
    LET cs == Components(path)
        start == IF startswith(path, <<"/">>) THEN Root ELSE Cwd
        d == Walk(start, SubSeq(cs, 1, Len(cs) - 1), ds)
    IN IF cs = <<>> THEN [ok |-> FALSE, loc |-> start]
       ELSE IF ~d.ok THEN d
       ELSE [ok |-> TRUE, loc |-> Child(d.loc, cs[Len(cs)])]

\* the directory a file location lies in
DirOf(loc) == Parent(loc)

WriteFile_keep_existing(files, loc, content) ==
    [l \in DOMAIN files \cup {loc} |->
        IF l \in DOMAIN files THEN files[l] ELSE content]

\* qr_image.save(filepath): the file at loc is created, or replaced
WriteFile(files, loc, content) ==
    [l \in DOMAIN files \cup {loc} |-> IF l = loc THEN content ELSE files[l]]

NoFiles == [l \in {} |-> <<>>]

\* what a save that fails part-way leaves in the file
Partial == <<"partial">>

----------------------------------------------------------------------------
(* generate_qr_code. *)

\* what can go wrong outside the program during one call: the encoder
\* (add_data / make), the renderer (make_image), os.makedirs, and the save,
\* which fails either before or after it has opened the file
Faults == {"none", "encode", "render", "mkdir", "save", "save_partial"}

\* qr.make_image(...): the bitmap is a function of the payload and the
\* fixed configuration
make_image(data) ==
    <<"image", data, <<version, error_correction, box_size, border>>>>

\* line 59
InvalidUrlResult ==
    [success |-> FALSE, message |-> <<"Please enter a valid URL.", <<>>>>,
     image |-> None]

\* line 99
SuccessResult(filepath, image) ==
    [success |-> TRUE,
     message |-> <<"QR code generated successfully! Saved as: ", filepath>>,
     image |-> image]

ExceptResult_reports_success(e) ==
    [success |-> TRUE, message |-> <<"Error generating QR code: ", e>>,
     image |-> None]

\* lines 101-102: the handler turns the exception e into a result
ExceptResult(e) ==
    [success |-> FALSE, message |-> <<"Error generating QR code: ", e>>,
     image |-> None]

\* what a call leaves behind: its return value and the disk
Outcome(r, files, ds) == [ret |-> r, fs |-> files, dirs |-> ds]

\* lines 92-99: makedirs when the directory is missing, join, save, return
SaveImage(u, name, image, fault, files, ds) ==
    IF OutputDirLoc \notin ds /\ fault = "mkdir"
    THEN Outcome(ExceptResult(<<"makedirs">>), files, ds)
    ELSE LET ds2 == ds \cup {OutputDirLoc}
             filepath == join(output_dir, name)
             at == Resolve(filepath, ds2)
         IN IF ~at.ok
            THEN Outcome(ExceptResult(<<"No such file or directory">>), files, ds2)
            ELSE IF fault = "save"
            THEN Outcome(ExceptResult(<<"save">>), files, ds2)
            ELSE IF fault = "save_partial"
            THEN Outcome(ExceptResult(<<"save">>),
                         WriteFile(files, at.loc, Partial), ds2)
            ELSE Outcome(SuccessResult(filepath, image),
                         WriteFile(files, at.loc, image), ds2)

generate_qr_code_mkdir_first(u, f, fault, files, ds) ==
    IF ~validate_url(u) THEN Outcome(InvalidUrlResult, files, ds \cup {OutputDirLoc})
    ELSE IF fault = "encode"
    THEN Outcome(ExceptResult(<<"encode">>), files, ds \cup {OutputDirLoc})
    ELSE IF fault = "render"
    THEN Outcome(ExceptResult(<<"render">>), files, ds \cup {OutputDirLoc})
    ELSE SaveImage(u, OutputFilename(u, f), make_image(format_url(u)),
                   fault, files, ds \cup {OutputDirLoc})

\* lines 56-102: the call generate_qr_code(u, f) made with the files and
\* directories (files, ds) on disk, while the environment does fault
generate_qr_code(u, f, fault, files, ds) ==
    IF ~validate_url(u) THEN Outcome(InvalidUrlResult, files, ds)
    ELSE IF fault = "encode"
    THEN Outcome(ExceptResult(<<"encode">>), files, ds)
    ELSE IF fault = "render"
    THEN Outcome(ExceptResult(<<"render">>), files, ds)
    ELSE SaveImage(u, OutputFilename(u, f), make_image(format_url(u)),
                   fault, files, ds)

----------------------------------------------------------------------------
(* The inputs. *)

Str_a_b == <<"a", ".", "b">>

UrlPrefixes ==
    {<<>>, HTTP, HTTPS, <<"h", "t", "t", "p", ":", "/">>,
     <<"H", "T", "T", "P", ":", "/", "/">>}
UrlChars == {".", "a", "-", "/"}

\* k characters the filter keeps: z9_-z9_-...
TailString(k) == [i \in 1..k |-> <<"z", "9", "_", "-">>[((i - 1) % 4) + 1]]
Tails == {TailString(k) : k \in {0} \cup ((SafeLen - 2)..(SafeLen + MaxOver))}

\* the urls the pure functions and the single call are tried on
FnUrls == {p \o b \o t : p \in UrlPrefixes, b \in Strs(UrlChars, MaxBody), t \in Tails}

\* the filenames the extension rule is tried on
ExtChars == {".", "p", "n", "g", "G"}
FnFilenames == Strs(ExtChars, MaxExt)

\* the arguments of the calls of SpecGen
GenUrls == {None, <<".", "a", "b">>, Str_a_b, <<"a", ".", "b", "/">>}
GenFilenames ==
    {None, <<"q", ".", "P", "n", "G">>, <<".", ".", "/", "q">>, <<"/", "q">>,
     <<"b", "/", "q">>}

----------------------------------------------------------------------------
(* Calls of the generator. *)

\* one call generate_qr_code(u, f) against the disk, with the fault the
\* environment injects
DoGenerate(u, f, fault) ==
    LET o == generate_qr_code(u, f, fault, fs, dirs)
    IN /\ url' = u
       /\ filename' = f
       /\ result' = o.ret
       /\ fs' = o.fs
       /\ dirs' = o.dirs
       /\ log' = Append(log, [url |-> u, filename |-> f, ok |-> o.ret.success])

(* SpecFn: one argument is drawn, one method is applied to it. *)

InitFn ==
    /\ pc = "fn"
    /\ \/ url \in FnUrls /\ filename = None
       \/ url = Str_a_b /\ filename \in FnFilenames
    /\ result = NoResult
    /\ fs = NoFiles
    /\ dirs \in {{}, {OutputDirLoc}}
    /\ log = <<>>
    /\ out = <<>>
    /\ exitStatus = NoStatus

CallValidateUrl ==
    /\ pc = "fn"
    /\ pc' = "validated"
    /\ result' = [fn |-> "validate_url", value |-> validate_url(url)]
    /\ UNCHANGED <<url, filename, fs, dirs, log, out, exitStatus>>

CallFormatUrl ==
    /\ pc = "fn"
    /\ pc' = "formatted"
    /\ result' = [fn |-> "format_url", value |-> format_url(url),
                  again |-> format_url(format_url(url))]
    /\ UNCHANGED <<url, filename, fs, dirs, log, out, exitStatus>>

CallGenerate ==
    /\ pc = "fn"
    /\ pc' = "generated"
    /\ \E fault \in Faults : DoGenerate(url, filename, fault)
    /\ UNCHANGED <<out, exitStatus>>

NextFn == CallValidateUrl \/ CallFormatUrl \/ CallGenerate

SpecFn == InitFn /\ [][NextFn]_vars

(* SpecGen: a client calls generate_qr_code up to MaxCalls times. *)

InitGen ==
    /\ pc = "api"
    /\ url = None
    /\ filename = None
    /\ result = NoResult
    /\ fs = NoFiles
    /\ dirs \in {{}, {OutputDirLoc}}
    /\ log = <<>>
    /\ out = <<>>
    /\ exitStatus = NoStatus

ApiCall ==
    /\ pc = "api"
    /\ Len(log) < MaxCalls
    /\ \E u \in GenUrls, f \in GenFilenames, fault \in Faults :
           DoGenerate(u, f, fault)
    /\ UNCHANGED <<pc, out, exitStatus>>

NextGen == ApiCall

SpecGen == InitGen /\ [][NextGen]_vars

----------------------------------------------------------------------------
(* main: the interaction loop.  The process blocks in its two input()      *)
(* calls; there input() returns a line, raises EOFError, or the user's     *)
(* Ctrl-C raises KeyboardInterrupt.  out lists what the current iteration  *)
(* of the loop has read, called and printed, in order.                     *)

Event(kind, what, arg) == [kind |-> kind, what |-> what, arg |-> arg]
Printed(what) == Event("print", what, <<>>)

\* the lines the user may type at the menu and at the url prompt
Choices == {<<"1">>, <<"2">>, <<" ", "2", " ">>, <<" ", "1">>, <<"1", "2">>,
            <<"q">>, <<>>}
MainUrls == {<<>>, <<" ">>, Str_a_b, <<" ", "a", ".", "b", "/", " ">>,
             <<"a", "b">>, HTTP}

\* whether qr_image.show() returns or raises
ShowOutcomes == {"shown", "raises"}

ChoiceBranch_exit_on_other(choice) ==
    IF choice = <<"1">> THEN "url" ELSE "exit"

\* lines 135, 138, 164: the branch taken for the stripped choice
ChoiceBranch(choice) ==
    IF choice = <<"2">> THEN "exit"
    ELSE IF choice = <<"1">> THEN "url"
    ELSE "invalid"

\* lines 104-112: display_qr_info prints one report
display_qr_info(u, success, message) ==
    Event("print", "report",
          <<u, IF success THEN "SUCCESS" ELSE "FAILED", message>>)

ShowImage_whatever_the_status(success, show) ==
    <<Event("call", "show", <<>>),
      IF show = "shown" /\ success THEN Printed("QR code image displayed")
      ELSE Printed("Note: Could not display image automatically")>>

\* lines 155-162: the image is shown when the generation succeeded, and a
\* failure to show it is a note
ShowImage(success, show) ==
    IF success
    THEN <<Event("call", "show", <<>>),
           IF show = "shown" THEN Printed("QR code image displayed")
           ELSE Printed("Note: Could not display image automatically")>>
    ELSE <<>>

InitMain ==
    /\ pc = "menu"
    /\ url = None
    /\ filename = None
    /\ result = NoResult
    /\ fs = NoFiles
    /\ dirs \in {{}, {OutputDirLoc}}
    /\ log = <<>>
    /\ out = <<>>
    /\ exitStatus = NoStatus

\* lines 133-137, 164-165: a line is read at the menu
ReadChoice ==
    /\ pc = "menu"
    /\ \E raw \in Choices :
        LET read == Event("input", "choice", raw)
            branch == ChoiceBranch(strip(raw))
        IN \/ /\ branch = "exit"
              /\ out' = <<read, Printed("Goodbye!")>>
              /\ pc' = "terminated"
              /\ exitStatus' = <<0>>
           \/ /\ branch = "url"
              /\ out' = <<read>>
              /\ pc' = "url_prompt"
              /\ UNCHANGED exitStatus
           \/ /\ branch = "invalid"
              /\ out' = <<read, Printed("Invalid choice. Please enter 1 or 2.")>>
              /\ pc' = "menu"
              /\ UNCHANGED exitStatus
    /\ UNCHANGED <<url, filename, result, fs, dirs, log>>

\* lines 140-162: a line is read at the url prompt and the iteration runs
\* to its end
ReadUrl ==
    /\ pc = "url_prompt"
    /\ \E raw \in MainUrls :
        LET read == Event("input", "url", raw)
            u == strip(raw)
        IN \/ /\ u = <<>>
              /\ out' = out \o <<read, Printed("Error: URL cannot be empty.")>>
              /\ UNCHANGED <<url, filename, result, fs, dirs>>
           \/ /\ u # <<>>
              /\ \E fault \in Faults, show \in ShowOutcomes :
                  LET o == generate_qr_code(u, None, fault, fs, dirs)
                  IN /\ url' = u
                     /\ filename' = None
                     /\ result' = o.ret
                     /\ fs' = o.fs
                     /\ dirs' = o.dirs
                     /\ out' = out
                               \o <<read, Printed("Generating QR code..."),
                                    Event("call", "generate_qr_code", u),
                                    display_qr_info(u, o.ret.success, o.ret.message)>>
                               \o ShowImage(o.ret.success, show)
    /\ pc' = "menu"
    /\ UNCHANGED <<log, exitStatus>>

\* lines 172-174: input() raises an Exception (EOFError), which is reported
InputFails ==
    /\ pc \in {"menu", "url_prompt"}
    /\ out' = (IF pc = "menu" THEN <<>> ELSE out)
              \o <<Event("raise", "EOFError", <<>>), Printed("Unexpected error")>>
    /\ pc' = "menu"
    /\ UNCHANGED <<url, filename, result, fs, dirs, log, exitStatus>>

\* lines 168-171: Ctrl-C while the process waits for a line
Interrupt ==
    /\ pc \in {"menu", "url_prompt"}
    /\ out' = (IF pc = "menu" THEN <<>> ELSE out)
              \o <<Event("raise", "KeyboardInterrupt", <<>>),
                   Printed("Application interrupted by user.")>>
    /\ pc' = "terminated"
    /\ exitStatus' = <<0>>
    /\ UNCHANGED <<url, filename, result, fs, dirs, log>>

NextMain == ReadChoice \/ ReadUrl \/ InputFails \/ Interrupt

SpecMain == InitMain /\ [][NextMain]_vars

----------------------------------------------------------------------------
(* Claims about validate_url and format_url (SpecFn). *)

HasScheme(s) == startswith(s, HTTP) \/ startswith(s, HTTPS)
InteriorDot(s) == \E i \in 2..(Len(s) - 1) : s[i] = "."

\* C1, as stated: validate_url(s) is True exactly when s is non-empty and
\* either starts with 'http://' or 'https://' or has a '.' at an index that
\* is neither 0 nor len(s)-1.
C1_AnyInteriorDotAccepted ==
    pc = "validated" =>
        result.value = (url # <<>> /\ (HasScheme(url) \/ InteriorDot(url)))

\* C1, amended: validate_url(s) is True exactly when s is non-empty and
\* either starts with 'http://' or 'https://', or contains a '.' while
\* neither its first nor its last character is '.'; the empty string is
\* rejected.
C1_DotNotAtEitherEnd ==
    pc = "validated" =>
        result.value =
            (url # <<>> /\ (HasScheme(url)
                            \/ (/\ \E i \in 1..Len(url) : url[i] = "."
                                /\ url[1] # "."
                                /\ url[Len(url)] # ".")))

\* a url with an interior '.' that validate_url has rejected
C1_Witness ==
    /\ pc = "validated"
    /\ InteriorDot(url)
    /\ ~HasScheme(url)
    /\ result.value = FALSE

\* C9: format_url(s) is s when s starts with 'http://' or 'https://' and
\* 'https://' + s otherwise; its result starts with one of the two schemes
\* and formatting it again changes nothing.
C9_FormatUrl ==
    pc = "formatted" =>
        /\ result.value = (IF HasScheme(url) THEN url ELSE HTTPS \o url)
        /\ HasScheme(result.value)
        /\ result.again = result.value

\* an 'http://' url that format_url has left alone
C9_Witness ==
    /\ pc = "formatted"
    /\ startswith(url, HTTP)
    /\ Len(url) > Len(HTTP)
    /\ result.value = url
    /\ result.again = url

----------------------------------------------------------------------------
(* Claims about the output filename (SpecFn). *)

\* the indices of the characters of u that are letters, digits, '-' or '_'
KeptIndices(u) == {i \in 1..Len(u) : u[i] \in Letters \cup Digits \cup {"-", "_"}}

\* the k-th smallest element of a set of indices
Kth(I, k) == CHOOSE i \in I : Cardinality({j \in I : j < i}) = k - 1

\* the first 20 kept characters of u, in order, followed by '.png'
DerivedName(u) ==
    LET I == KeptIndices(u)
        n == IF Cardinality(I) < 20 THEN Cardinality(I) ELSE 20
    IN [k \in 1..(n + 4) |-> IF k <= n THEN u[Kth(I, k)] ELSE PNG[k - n]]

\* the name in the path that a successful call reports
ReportedName == SubSeq(result.message[2], Len(output_dir) + 2, Len(result.message[2]))

\* C4: with an accepted url and no filename, the file is named after the
\* original url: its letters, digits, '-' and '_' in order, cut to 20
\* characters, then '.png'; at most 24 characters.
C4_DerivedFilename ==
    (pc = "generated" /\ FilenameAbsent(filename) /\ result.success) =>
        /\ result.message[2] = output_dir \o <<"/">> \o DerivedName(url)
        /\ Len(DerivedName(url)) <= 24
        /\ Child(OutputDirLoc, DerivedName(url)) \in DOMAIN fs

\* a url without scheme, with dropped characters and more than 20 kept
\* ones, has been given its 24-character name
C4_Witness ==
    /\ pc = "generated"
    /\ filename = None
    /\ result.success
    /\ ~HasScheme(url)
    /\ Cardinality(KeptIndices(url)) > 20
    /\ Cardinality(KeptIndices(url)) < Len(url)
    /\ Len(ReportedName) = 24

EndsInPngAnyCase(f) ==
    /\ Len(f) >= 4
    /\ f[Len(f) - 3] = "."
    /\ f[Len(f) - 2] \in {"p", "P"}
    /\ f[Len(f) - 1] \in {"n", "N"}
    /\ f[Len(f)] \in {"g", "G"}

\* C5: a supplied filename is used unchanged when it ends in '.png' in any
\* letter case and with '.png' appended once otherwise; the name used ends
\* in '.png' in some letter case, and the rule leaves it as it is.
C5_ExtensionRule ==
    (pc = "generated" /\ ~FilenameAbsent(filename) /\ result.success) =>
        /\ ReportedName =
               (IF EndsInPngAnyCase(filename) THEN filename ELSE filename \o PNG)
        /\ EndsInPngAnyCase(ReportedName)
        /\ OutputFilename(url, ReportedName) = ReportedName

\* a name ending in '.pnG' has been used as it was supplied
C5_Witness ==
    /\ pc = "generated"
    /\ ~FilenameAbsent(filename)
    /\ result.success
    /\ endswith(filename, <<".", "p", "n", "G">>)
    /\ ReportedName = filename

----------------------------------------------------------------------------
(* Claims about generate_qr_code and the disk (SpecGen). *)

\* C2: every file written lies in the output directory, whatever the
\* accepted url and the filename argument.
C2_FilesOnlyInOutputDir ==
    \A loc \in DOMAIN fs : DirOf(loc) = OutputDirLoc

\* C3: a call with a url that validate_url rejects returns
\* (False, 'Please enter a valid URL.', None) and changes nothing on disk.
C3_RejectedUrlNoEffect ==
    [][~validate_url(url') =>
          /\ result' = [success |-> FALSE,
                        message |-> <<"Please enter a valid URL.", <<>>>>,
                        image |-> None]
          /\ fs' = fs
          /\ dirs' = dirs]_vars

\* a rejected url after a call, with the output directory still missing
C3_Witness ==
    /\ pc = "api"
    /\ log # <<>>
    /\ ~validate_url(url)
    /\ ~result.success
    /\ OutputDirLoc \notin dirs

\* C6: every failure inside generate_qr_code comes back as a result
\* (False, 'Error generating QR code: ...', None), so the image is not None
\* exactly when the success flag is True.
C6_FailuresAreResults ==
    (pc = "api" /\ log # <<>>) =>
        /\ (result.image # None) <=> result.success
        /\ (validate_url(url) /\ result.image = None) =>
               /\ result.success = FALSE
               /\ result.message[1] = "Error generating QR code: "

\* a call that failed after it had created the output directory
C6_Witness ==
    /\ pc = "api"
    /\ Len(log) = 1
    /\ validate_url(url)
    /\ result.message[1] = "Error generating QR code: "
    /\ result.image = None
    /\ OutputDirLoc \in dirs
    /\ fs = NoFiles

\* the calls so far all succeeded and none named its file
OnlyUnnamedSuccesses ==
    \A i \in 1..Len(log) : log[i].ok /\ FilenameAbsent(log[i].filename)

\* C7: after successful calls without filename the output directory holds
\* one file per distinct derived name, and each holds the image of the most
\* recent call that produced its name.
C7_OneFilePerNameLatestWins ==
    (pc = "api" /\ OnlyUnnamedSuccesses) =>
        /\ DOMAIN fs =
               {Child(OutputDirLoc, DerivedName(log[i].url)) : i \in 1..Len(log)}
        /\ \A i \in 1..Len(log) :
               (\A j \in (i + 1)..Len(log) :
                    DerivedName(log[j].url) # DerivedName(log[i].url))
               => fs[Child(OutputDirLoc, DerivedName(log[i].url))]
                      = make_image(format_url(log[i].url))

\* two successful calls with different urls of the same derived name have
\* left one file, holding the second image
C7_Witness ==
    /\ pc = "api"
    /\ Len(log) = 2
    /\ OnlyUnnamedSuccesses
    /\ log[1].url # log[2].url
    /\ DerivedName(log[1].url) = DerivedName(log[2].url)
    /\ Cardinality(DOMAIN fs) = 1
    /\ \A loc \in DOMAIN fs : fs[loc] = make_image(format_url(log[2].url))

----------------------------------------------------------------------------
(* Claims about main (SpecMain). *)

Has(events, kind, what) ==
    \E i \in 1..Len(events) : events[i].kind = kind /\ events[i].what = what

Indices(events, kind, what) ==
    {i \in 1..Len(events) : events[i].kind = kind /\ events[i].what = what}

\* the iteration read the choice n at the menu
ChoseIn(events, n) ==
    /\ events # <<>>
    /\ events[1].kind = "input"
    /\ events[1].what = "choice"
    /\ strip(events[1].arg) = n

\* C8: the loop terminates only on the choice '2' (stripped) or on a
\* keyboard interrupt, with exit status 0; anything else is reported and
\* leaves the loop running, back at the menu once the iteration is over.
C8_OnlyExitOrInterruptTerminates ==
    [][/\ pc' = "terminated" =>
            /\ exitStatus' = <<0>>
            /\ ChoseIn(out', <<"2">>) \/ Has(out', "raise", "KeyboardInterrupt")
       /\ ~(ChoseIn(out', <<"2">>) \/ Has(out', "raise", "KeyboardInterrupt")) =>
            /\ pc' \in {"menu", "url_prompt"}
            /\ exitStatus' = NoStatus
            /\ pc' = "url_prompt" <=> (ChoseIn(out', <<"1">>) /\ Len(out') = 1)
            /\ pc' = "menu" => out'[Len(out')].kind = "print"]_vars

\* back at the menu after an input() that raised, and after an unknown
\* choice: both were reported
C8_Witness ==
    /\ pc = "menu"
    /\ exitStatus = NoStatus
    /\ \/ Has(out, "raise", "EOFError") /\ Has(out, "print", "Unexpected error")
       \/ /\ ChoseIn(out, <<"1", "2">>)
          /\ Has(out, "print", "Invalid choice. Please enter 1 or 2.")

\* the iteration read a line at the url prompt
UrlRead(events) == Has(events, "input", "url")
UrlOf(events) ==
    strip(events[CHOOSE i \in Indices(events, "input", "url") : TRUE].arg)

\* C10: in an iteration with choice '1', an empty url means no call of the
\* generator; otherwise the generator is called once, its report is printed
\* once and before the display is attempted, the display is attempted at
\* most once and only after a success, and the report keeps its status.
C10_OnceEachInOrder ==
    (ChoseIn(out, <<"1">>) /\ UrlRead(out)) =>
        LET gens == Indices(out, "call", "generate_qr_code")
            reports == Indices(out, "print", "report")
            shows == Indices(out, "call", "show")
        IN IF UrlOf(out) = <<>>
           THEN gens = {} /\ reports = {} /\ shows = {}
           ELSE /\ Cardinality(gens) = 1
                /\ Cardinality(reports) = 1
                /\ Cardinality(shows) <= 1
                /\ \A g \in gens, r \in reports :
                       /\ g < r
                       /\ out[g].arg = UrlOf(out)
                       /\ out[r].arg[2] = (IF result.success THEN "SUCCESS" ELSE "FAILED")
                       /\ out[r].arg[3] = result.message
                /\ \A r \in reports, sh \in shows : r < sh /\ result.success
                /\ result.success => shows # {}

\* a generation that succeeded, was reported as SUCCESS, and whose image
\* could then not be displayed
C10_Witness ==
    /\ pc = "menu"
    /\ ChoseIn(out, <<"1">>)
    /\ UrlRead(out)
    /\ Has(out, "print", "report")
    /\ result.success
    /\ Has(out, "call", "show")
    /\ Has(out, "print", "Note: Could not display image automatically")

====
